---- MODULE Spec2Model ----
(***************************************************************************)
(* The blog blueprint of flaskr (src/flaskr/blog.py): the post and comment *)
(* tables and one action per route handler.  A request is one atomic step  *)
(* in Spec; SpecRace additionally splits the comment-creating POST of      *)
(* /post/<id> into its two store operations.                               *)
(*                                                                         *)
(* Rows carry the columns the handlers branch on: id, title, visibility,   *)
(* author_id, post_id.  The body column is opaque text that no handler     *)
(* reads back, and the `created` column and the ORDER BY clauses only      *)
(* order result rows; results are modelled as sets of rows.                *)
(***************************************************************************)
EXTENDS Integers, FiniteSets, Sequences, TLC

VARIABLES
    posts,          \* rows of table post: [id, title, visibility, author_id]
    comments,       \* rows of table comment: [id, title, post_id]
    nextPostId,     \* the id the store gives the next post
    nextCommentId,  \* the id the store gives the next comment
    response,       \* the last response sent
    pending,        \* comment POSTs between their SELECT and their INSERT
    racedIds        \* history: comments inserted after their post was deleted

vars == <<posts, comments, nextPostId, nextCommentId, response, pending, racedIds>>

(* ------------------------------ bounds --------------------------------- *)

NumUsers == 2
MaxPosts == 1
MaxComments == 1
MaxInFlight == 1

(* ------------------------------ values --------------------------------- *)

\* g.user is None for an unauthenticated request; user ids start at 1.
NoUser == 0

Users == 1..NumUsers

Viewers == Users \cup {NoUser}

\* Python None and Python str, kept apart so that None differs from 'NULL'.
PyNone == <<"None">>

PyStr(s) == <<"str", s>>

Digits == <<"1", "2", "3", "4", "5", "6", "7", "8", "9">>

\* The text a user id has in a form field (the option value of a user).
ToText(n) == Digits[n]

\* request.form['visibility']: the marker 'NULL' or the id of a user.
VisInputs == {"NULL"} \cup {ToText(u) : u \in Users}

\* request.form['title']: empty or not.
Titles == {"", "t"}

\* The form a request carries: a GET carries none.
FormTitles(method) == IF method = "POST" THEN Titles ELSE {""}

FormVis(method) == IF method = "POST" THEN VisInputs ELSE {"NULL"}

Methods == {"GET", "POST"}

PostIds == 1..MaxPosts

CommentIds == 1..MaxComments

(* --------------------------- pure helpers ------------------------------ *)

\* Variant: the marker 'NULL' is kept as text.
maybeNone_identity(s) == PyStr(s)

\* maybeNone: the marker 'NULL' becomes None, anything else is kept.
maybeNone(s) == IF s = "NULL" THEN PyNone ELSE PyStr(s)

\* SQL `visibility = ?` with an integer user id: NULL equals nothing, a
\* stored text equals the id when it is the id's decimal text.
SqlEq(visibility, uid) == visibility # PyNone /\ visibility = PyStr(ToText(uid))

\* JOIN user u ON p.author_id = u.id keeps the rows whose author exists.
JoinUser(rows) == {p \in rows : p.author_id \in Users}

\* login_required: the view runs only for an authenticated viewer.
login_required(viewer) == viewer # NoUser

\* Variant: comments outlive their post.
OnDeleteNoCascade(cs, post_id) == cs

\* ON DELETE CASCADE of comment.post_id -> post.id.
OnDeleteCascade(cs, post_id) == {c \in cs : c.post_id # post_id}

\* What a handler returns: render_template (200, the template and the rows
\* given to it), redirect (302, the endpoint and its id), abort (403, 404)
\* or an unhandled exception (500).  `flash` tells whether flash(error) ran.
Response(endpoint, status, view, id, flash, prows, crows) ==
    [endpoint |-> endpoint, status |-> status, view |-> view, id |-> id,
     flash |-> flash, posts |-> prows, comments |-> crows]

render_template(endpoint, view, flash, prows, crows) ==
    Response(endpoint, 200, view, 0, flash, prows, crows)

redirect(endpoint, view, id, flash) == Response(endpoint, 302, view, id, flash, {}, {})

abort(endpoint, status) == Response(endpoint, status, "", 0, FALSE, {}, {})

(* ------------------------------- queries ------------------------------- *)

\* Variant: a listing without the WHERE clause.
index_rows_unfiltered(viewer) == JoinUser(posts)

\* The two SELECTs of index().
index_rows(viewer) ==
    IF viewer # NoUser
    THEN {p \in JoinUser(posts) :
            p.visibility = PyNone \/ SqlEq(p.visibility, viewer) \/ p.author_id = viewer}
    ELSE {p \in JoinUser(posts) : p.visibility = PyNone}

\* Variant: get_post without the author test.
get_post_no_author_check(id, viewer) ==
    LET rows == {p \in JoinUser(posts) : p.id = id}
    IN  IF rows = {} THEN 404 ELSE 200

\* Variant: get_post hiding restricted posts from viewers outside their audience.
get_post_filtered(id, viewer) ==
    LET rows == {p \in JoinUser(posts) : p.id = id}
    IN  IF rows = {} THEN 404
        ELSE IF (CHOOSE p \in rows : TRUE).author_id # viewer
             THEN (IF \E p \in rows : p.visibility # PyNone /\ ~SqlEq(p.visibility, viewer)
                   THEN 404 ELSE 403)
             ELSE 200

\* get_post(id) with check_author=True: 404, 403, or 200 when the row is returned.
get_post(id, viewer) ==
    LET rows == {p \in JoinUser(posts) : p.id = id}
    IN  IF rows = {} THEN 404
        ELSE IF (CHOOSE p \in rows : TRUE).author_id # viewer THEN 403
        ELSE 200

\* The comment joined with its post and the post's author.
comment_join(id) ==
    {<<c, p>> \in comments \X JoinUser(posts) : c.post_id = p.id /\ c.id = id}

\* Variant: get_comment without the author test.
get_comment_no_author_check(id, viewer) ==
    IF comment_join(id) = {} THEN 404 ELSE 200

\* get_comment(id) with check_author=True.
get_comment(id, viewer) ==
    LET rows == comment_join(id)
    IN  IF rows = {} THEN 404
        ELSE IF (CHOOSE r \in rows : TRUE)[2].author_id # viewer THEN 403
        ELSE 200

\* Variant: the post looked up by id alone.
post_row_unfiltered(viewer, id) == {p \in JoinUser(posts) : p.id = id}

\* The two SELECTs of post(id): the rows fetchone() draws from.
post_row(viewer, id) ==
    IF viewer # NoUser
    THEN {p \in JoinUser(posts) :
            (p.visibility = PyNone \/ SqlEq(p.visibility, viewer) \/ p.author_id = viewer)
            /\ p.id = id}
    ELSE {p \in JoinUser(posts) : p.visibility = PyNone /\ p.id = id}

\* Variant: the comment takes the id of the URL.
comment_post_id_from_url(found, id) == {id}

\* post['id']: the id of the fetched row; no value (TypeError) when post is None.
comment_post_id(found, id) == {p.id : p \in found}

\* Variant: create() without the title test.
create_error_none(title) == FALSE

\* `if not title: error = ...` of create().
create_error(title) == title = ""

\* `if not title: error = ...` of post().
post_error(title) == title = ""

\* `if not title: error = ...` of update().
update_error(title) == title = ""

(* -------------------------------- state -------------------------------- *)

\* The tables and the requests in flight; `response` is the last response sent.
store == <<posts, comments, nextPostId, nextCommentId, pending, racedIds>>

NoResponse == Response("", 0, "", 0, FALSE, {}, {})

Init ==
    /\ posts = {}
    /\ comments = {}
    /\ nextPostId = 1
    /\ nextCommentId = 1
    /\ response = NoResponse
    /\ pending = <<>>
    /\ racedIds = {}

(* ------------------------------- handlers ------------------------------ *)
(* Each handler is its writes to the store (X_effect) and the response it  *)
(* returns (X_result), both read off the same branches of the code.        *)

\* GET /
index_result(viewer) ==
    render_template("blog.index", "blog/index.html", FALSE, index_rows(viewer), {})

index_effect(viewer) == UNCHANGED store

index(viewer) == response' = index_result(viewer) /\ index_effect(viewer)

\* GET,POST /create
create_result(viewer, method, title, visibility) ==
    IF ~login_required(viewer)
    THEN redirect("blog.create", "auth.login", 0, FALSE)
    ELSE IF method = "POST" /\ ~create_error(title)
    THEN redirect("blog.create", "blog.index", 0, FALSE)
    ELSE render_template("blog.create", "blog/create.html", method = "POST", {}, {})

create_effect(viewer, method, title, visibility) ==
    IF login_required(viewer) /\ method = "POST" /\ ~create_error(title)
    THEN /\ nextPostId <= MaxPosts
         /\ posts' = posts \cup {[id |-> nextPostId, title |-> title,
                                  visibility |-> maybeNone(visibility),
                                  author_id |-> viewer]}
         /\ nextPostId' = nextPostId + 1
         /\ UNCHANGED <<comments, nextCommentId, pending, racedIds>>
    ELSE UNCHANGED store

create(viewer, method, title, visibility) ==
    /\ response' = create_result(viewer, method, title, visibility)
    /\ create_effect(viewer, method, title, visibility)

\* GET,POST /post/<id>
post_result(viewer, method, id, title) ==
    LET found == post_row(viewer, id)
        pids == comment_post_id(found, id)
    IN  IF pids = {}
        THEN abort("blog.post", 500)
        ELSE IF method = "POST"
        THEN redirect("blog.post", "blog.post", CHOOSE i \in pids : TRUE, post_error(title))
        ELSE render_template("blog.post", "blog/post.html", FALSE, found,
                             {c \in comments : c.post_id \in pids})

post_effect(viewer, method, id, title) ==
    LET found == post_row(viewer, id)
        pids == comment_post_id(found, id)
    IN  IF method = "POST" /\ ~post_error(title) /\ pids # {}
        THEN /\ nextCommentId + Len(pending) <= MaxComments
             /\ comments' = comments \cup {[id |-> nextCommentId, title |-> title,
                                            post_id |-> CHOOSE i \in pids : TRUE]}
             /\ nextCommentId' = nextCommentId + 1
             /\ UNCHANGED <<posts, nextPostId, pending, racedIds>>
        ELSE UNCHANGED store

post(viewer, method, id, title) ==
    /\ response' = post_result(viewer, method, id, title)
    /\ post_effect(viewer, method, id, title)

\* GET,POST /<id>/update
update_result(viewer, method, id, title, visibility) ==
    IF ~login_required(viewer)
    THEN redirect("blog.update", "auth.login", 0, FALSE)
    ELSE IF get_post(id, viewer) # 200
    THEN abort("blog.update", get_post(id, viewer))
    ELSE IF method = "POST" /\ ~update_error(title)
    THEN redirect("blog.update", "blog.index", 0, FALSE)
    ELSE render_template("blog.update", "blog/update.html", method = "POST",
                         {p \in JoinUser(posts) : p.id = id}, {})

update_effect(viewer, method, id, title, visibility) ==
    IF /\ login_required(viewer)
       /\ get_post(id, viewer) = 200
       /\ method = "POST"
       /\ ~update_error(title)
    THEN /\ posts' = {IF p.id = id
                      THEN [p EXCEPT !.title = title,
                                     !.visibility = maybeNone(visibility)]
                      ELSE p : p \in posts}
         /\ UNCHANGED <<comments, nextPostId, nextCommentId, pending, racedIds>>
    ELSE UNCHANGED store

update(viewer, method, id, title, visibility) ==
    /\ response' = update_result(viewer, method, id, title, visibility)
    /\ update_effect(viewer, method, id, title, visibility)

\* POST /<id>/delete
delete_result(viewer, id) ==
    IF ~login_required(viewer)
    THEN redirect("blog.delete", "auth.login", 0, FALSE)
    ELSE IF get_post(id, viewer) # 200
    THEN abort("blog.delete", get_post(id, viewer))
    ELSE redirect("blog.delete", "blog.index", 0, FALSE)

delete_effect(viewer, id) ==
    IF login_required(viewer) /\ get_post(id, viewer) = 200
    THEN /\ posts' = {p \in posts : p.id # id}
         /\ comments' = OnDeleteCascade(comments, id)
         \* a request that has read this post and not yet inserted now holds a stale id
         /\ pending' = [k \in DOMAIN pending |->
                           IF pending[k].post_id = id
                           THEN [pending[k] EXCEPT !.stale = TRUE]
                           ELSE pending[k]]
         /\ UNCHANGED <<nextPostId, nextCommentId, racedIds>>
    ELSE UNCHANGED store

delete(viewer, id) ==
    /\ response' = delete_result(viewer, id)
    /\ delete_effect(viewer, id)

\* POST /<id>/deleteComment
deleteComment_result(viewer, id) ==
    IF ~login_required(viewer)
    THEN redirect("blog.deleteComment", "auth.login", 0, FALSE)
    ELSE IF get_comment(id, viewer) # 200
    THEN abort("blog.deleteComment", get_comment(id, viewer))
    ELSE redirect("blog.deleteComment", "blog.post",
                  (CHOOSE r \in comment_join(id) : TRUE)[1].post_id, FALSE)

deleteComment_effect(viewer, id) ==
    IF login_required(viewer) /\ get_comment(id, viewer) = 200
    THEN /\ comments' = {c \in comments : c.id # id}
         /\ UNCHANGED <<posts, nextPostId, nextCommentId, pending, racedIds>>
    ELSE UNCHANGED store

deleteComment(viewer, id) ==
    /\ response' = deleteComment_result(viewer, id)
    /\ deleteComment_effect(viewer, id)

Next ==
    \/ \E v \in Viewers : index(v)
    \/ \E v \in Viewers, m \in Methods : \E t \in FormTitles(m), s \in FormVis(m) :
          create(v, m, t, s)
    \/ \E v \in Viewers, m \in Methods, i \in PostIds : \E t \in FormTitles(m) :
          post(v, m, i, t)
    \/ \E v \in Viewers, m \in Methods, i \in PostIds :
          \E t \in FormTitles(m), s \in FormVis(m) : update(v, m, i, t, s)
    \/ \E v \in Viewers, i \in PostIds : delete(v, i)
    \/ \E v \in Viewers, i \in CommentIds : deleteComment(v, i)

\* One request at a time, each run to completion.
Spec == Init /\ [][Next]_vars

(* ---- the comment POST of /post/<id> as its two store operations ------- *)

\* The SELECT of post(id) of a POST with a title, when it finds a row: the
\* request now holds post['id'] and has not yet inserted.
post_read(viewer, id) ==
    LET found == post_row(viewer, id)
        pids == comment_post_id(found, id)
    IN  /\ pids # {}
        /\ Len(pending) < MaxInFlight
        /\ nextCommentId + Len(pending) <= MaxComments
        /\ pending' = Append(pending, [post_id |-> CHOOSE i \in pids : TRUE,
                                        stale |-> FALSE])
        /\ UNCHANGED <<posts, comments, nextPostId, nextCommentId, racedIds>>

\* The INSERT of post(id) with the id read earlier, the commit and the redirect.
post_insert(title) ==
    \E k \in DOMAIN pending :
        /\ comments' = comments \cup {[id |-> nextCommentId, title |-> title,
                                       post_id |-> pending[k].post_id]}
        /\ nextCommentId' = nextCommentId + 1
        /\ racedIds' = IF pending[k].stale THEN racedIds \cup {nextCommentId} ELSE racedIds
        /\ pending' = SubSeq(pending, 1, k - 1) \o SubSeq(pending, k + 1, Len(pending))
        /\ response' = redirect("blog.post", "blog.post", pending[k].post_id, FALSE)
        /\ UNCHANGED <<posts, nextPostId>>

\* The requests that write to the store (the POSTs), one of them possibly
\* between its read and its insert.
NextRace ==
    \/ \E v \in Viewers, t \in Titles, s \in VisInputs : create(v, "POST", t, s)
    \/ \E v \in Viewers, i \in PostIds, t \in Titles : post(v, "POST", i, t)
    \/ \E v \in Viewers, i \in PostIds, t \in Titles, s \in VisInputs :
          update(v, "POST", i, t, s)
    \/ \E v \in Viewers, i \in PostIds : delete(v, i)
    \/ \E v \in Viewers, i \in CommentIds : deleteComment(v, i)
    \/ \E v \in Viewers, i \in PostIds : post_read(v, i) /\ UNCHANGED response
    \/ \E t \in Titles \ {""} : post_insert(t)

SpecRace == Init /\ [][NextRace]_vars

(* ------------------------------ properties ----------------------------- *)

\* canView of the visibility policy: the post is public, or the viewer is
\* present and is the post's visibility target or its author.
CanView(viewer, p) ==
    \/ p.visibility = PyNone
    \/ viewer # NoUser /\ p.visibility = PyStr(ToText(viewer))
    \/ viewer # NoUser /\ viewer = p.author_id

PostWithId(i) == {p \in posts : p.id = i}

TablesUnchanged == UNCHANGED <<posts, comments>>

\* C1: the listing of a viewer is exactly the set of posts the viewer can
\* view: the public ones for an absent viewer; for a present viewer the
\* public ones, those whose visibility is the viewer's id and those the
\* viewer wrote.
C1_ListingIsCanView ==
    [][response'.endpoint = "blog.index"
       => \A v \in Viewers :
             index(v) => response'.posts = {p \in posts' : CanView(v, p)}]_vars

\* A listing that leaves out a restricted post of another user.
C1_Witness ==
    /\ response.endpoint = "blog.index"
    /\ \E p \in posts : p.visibility # PyNone /\ p \notin response.posts

\* The step is an update or a delete of post i requested by viewer v.
MutationOf(v, i) ==
    \/ /\ response'.endpoint = "blog.update"
       /\ \E m \in Methods : \E t \in FormTitles(m), s \in FormVis(m) : update(v, m, i, t, s)
    \/ /\ response'.endpoint = "blog.delete"
       /\ delete(v, i)

\* The responses update and delete give viewer v for post i, whatever the form.
MutationResponses(v, i) ==
    {delete_result(v, i)} \cup
    {update_result(v, m, i, f[1], f[2]) :
        m \in Methods, f \in (Titles \X VisInputs)}

IsLoginRedirect(r) == r.status = 302 /\ r.view = "auth.login"

\* C2: update and delete of an existing post change the tables only for the
\* post's author; another authenticated viewer gets 403, an absent viewer is
\* redirected to login, and both leave the tables unchanged.
C2_OnlyAuthorMutates ==
    /\ [](\A v \in Viewers, i \in PostIds :
             PostWithId(i) # {}
             => /\ v = NoUser
                   => \A r \in MutationResponses(v, i) : IsLoginRedirect(r)
                /\ (v # NoUser /\ \E p \in PostWithId(i) : p.author_id # v)
                   => \A r \in MutationResponses(v, i) : r.status = 403)
    /\ [][~TablesUnchanged
          => \A v \in Viewers, i \in PostIds :
                (PostWithId(i) # {} /\ MutationOf(v, i))
                => v # NoUser /\ \A p \in PostWithId(i) : p.author_id = v]_vars

\* An update or delete by a non-author was answered 403.
C2_Witness ==
    /\ response.endpoint \in {"blog.update", "blog.delete"}
    /\ response.status = 403
    /\ posts # {}

\* The viewers C3 is about: post i is restricted to user u and the viewer
\* is neither u nor the author.
HiddenFrom(v, i) ==
    \E p \in PostWithId(i) : \E u \in Users :
        p.visibility = PyStr(ToText(u)) /\ v # u /\ v # p.author_id

\* C3 as claimed: fetching for mutation a restricted post one cannot view
\* is answered 404.
C3_HiddenPostIs404 ==
    \A v \in Viewers, i \in PostIds :
        HiddenFrom(v, i) => \A r \in MutationResponses(v, i) : r.status = 404

\* C3 (amended): fetching for mutation a restricted post one cannot view is
\* never answered 404: an authenticated viewer gets 403 and an absent viewer
\* is redirected to login, and the tables are unchanged.
C3_HiddenPostIs403 ==
    /\ [](\A v \in Viewers, i \in PostIds :
             HiddenFrom(v, i)
             => \A r \in MutationResponses(v, i) :
                   /\ r.status # 404
                   /\ v # NoUser => r.status = 403
                   /\ v = NoUser => IsLoginRedirect(r))
    /\ [][~TablesUnchanged
          => \A v \in Viewers, i \in PostIds : HiddenFrom(v, i) => ~MutationOf(v, i)]_vars

\* A 403 answer to update or delete while a restricted post exists that the
\* other users cannot view.
C3_Witness ==
    /\ response.endpoint \in {"blog.update", "blog.delete"}
    /\ response.status = 403
    /\ \E p \in posts : p.visibility = PyStr(ToText(p.author_id))

\* C4: a request to /post/<id> whose id matches no post the viewer can view
\* is answered 404, for GET and POST, and writes nothing.
C4_UnviewablePostIs404 ==
    [][response'.endpoint = "blog.post"
       => \A v \in Viewers, i \in PostIds :
             (~\E p \in PostWithId(i) : CanView(v, p))
             => \A m \in Methods : \A t \in FormTitles(m) :
                   post(v, m, i, t) => response'.status = 404 /\ TablesUnchanged]_vars

\* The authors of the parent posts of the comments with id i.
ParentAuthors(i) ==
    {p.author_id : p \in {q \in posts : \E c \in comments : c.id = i /\ c.post_id = q.id}}

C6_DeleteRemovesComments ==
    [][(/\ response'.endpoint = "blog.delete"
        /\ response'.status = 302
        /\ response'.view = "blog.index")
       => \A v \in Viewers, i \in PostIds :
             delete(v, i) => /\ \A c \in comments' : c.post_id # i
                             /\ \A p \in posts' : p.id # i]_vars

\* A post was deleted after a comment had been made, and no comment of it
\* is left.
C6_Witness ==
    /\ response.endpoint = "blog.delete"
    /\ response.status = 302
    /\ response.view = "blog.index"
    /\ nextCommentId > 1
    /\ \E i \in PostIds : i < nextPostId /\ PostWithId(i) = {}
                          /\ \A c \in comments : c.post_id # i

\* C7 as claimed: every post's visibility is None or its own author's id.
C7_VisibilityIsNoneOrAuthor ==
    \A p \in posts : p.visibility = PyNone \/ p.visibility = PyStr(ToText(p.author_id))

\* What create and update store for the form value s.
Stored(s) == IF s = "NULL" THEN PyNone ELSE PyStr(s)

\* C7 (amended): every post's visibility is None or the form value its
\* author submitted, whatever user that value names: create and update
\* store None for the marker 'NULL' and any other value as it is, and never
\* the text 'NULL'.
C7_VisibilityIsSubmittedValue ==
    [][posts' # posts
       => /\ response'.endpoint = "blog.create"
             => \A v \in Viewers, t \in Titles, s \in VisInputs :
                   create(v, "POST", t, s)
                   => \A p \in posts' \ posts : p.author_id = v /\ p.visibility = Stored(s)
          /\ response'.endpoint = "blog.update"
             => \A v \in Viewers, i \in PostIds, t \in Titles, s \in VisInputs :
                   update(v, "POST", i, t, s)
                   => \A p \in posts' \ posts : p.author_id = v /\ p.visibility = Stored(s)
          /\ \A p \in posts' : p.visibility # PyStr("NULL")]_vars

\* A post restricted to a user who is not its author.
C7_Witness ==
    \E p \in posts : \E u \in Users :
        p.visibility = PyStr(ToText(u)) /\ u # p.author_id

\* C8: a POST with an empty title to create, update or /post/<id> leaves
\* the post table and the comment table as they were.
C8_EmptyTitleWritesNothing ==
    [][~TablesUnchanged
       => /\ response'.endpoint = "blog.create"
             => \A v \in Viewers, s \in VisInputs : ~create(v, "POST", "", s)
          /\ response'.endpoint = "blog.update"
             => \A v \in Viewers, i \in PostIds, s \in VisInputs :
                   ~update(v, "POST", i, "", s)
          /\ response'.endpoint = "blog.post"
             => \A v \in Viewers, i \in PostIds : ~post(v, "POST", i, "")]_vars

\* create answered an empty title by flashing the error and rendering the form.
C8_Witness ==
    /\ response.endpoint = "blog.create"
    /\ response.flash
    /\ response.status = 200

\* C9: a POST to /post/<id> with a title inserts a comment exactly when the
\* viewer can view post id, and the comment is on that post.
C9_CommentIffCanView ==
    [][response'.endpoint = "blog.post"
       => \A v \in Viewers, i \in PostIds, t \in Titles \ {""} :
             post(v, "POST", i, t)
             => LET ok == \E p \in PostWithId(i) : CanView(v, p)
                IN  /\ comments' # comments <=> ok
                    /\ ok => \E c \in comments' \ comments :
                                c.post_id = i /\ comments' = comments \cup {c}
                    /\ posts' = posts]_vars

\* A comment was inserted and the request redirected to the post.
C9_Witness ==
    /\ response.endpoint = "blog.post"
    /\ response.status = 302
    /\ ~response.flash
    /\ \E c \in comments : c.post_id = response.id /\ c.id = nextCommentId - 1

Orphans == {c \in comments : \A p \in posts : p.id # c.post_id}

\* C10: a comment references a missing post only when it was inserted by a
\* request whose post was deleted between its read and its insert; requests
\* that run to completion never leave such a comment.
C10_OrphanOnlyByRace ==
    /\ \A c \in Orphans : c.id \in racedIds
    /\ (racedIds = {} => Orphans = {})

\* The insert went ahead with the id read before the post was deleted.
C10_Witness ==
    \E c \in Orphans : c.id \in racedIds

====
